---- MODULE Spec2Model ----
(***************************************************************************)
(* Model of the ESP32 plant monitoring / irrigation controller             *)
(* (src/plantv1_2.ino).  The file holds two builds of the same sketch:     *)
(*   "light"  - lines 30..330 : analog LDR, credential list, light-aware   *)
(*              handleWateringLogic(soil, haAgua, hour, lightValue)        *)
(*   "simple" - lines 332..600: digital LDR, single credential,            *)
(*              handleWateringLogic(soil, haAgua, hour)                    *)
(* The variable `variant` selects the build; it never changes.             *)
(* The sketch is single threaded: `pc` is the position of the only thread. *)
(* The radio (WiFi.status()) is the only thing that changes on its own.    *)
(***************************************************************************)
EXTENDS Integers, Sequences, FiniteSets, TLC

\* ---------------- program constants (LIMITES E CONSTANTES) ----------------
SOIL_MOISTURE_THRESHOLD == 1200
WIFI_MAX_ATTEMPTS == 15
LED_BLINK_SHORT == 200
LED_BLINK_LONG == 300
PUMP_ON_TIME_MS == 3000
LOOP_DELAY_MS == 15000
LDR_DARK_THRESHOLD == 1500
NIGHT_START_HOUR == 18
NIGHT_END_HOUR == 12

\* ---------------- bounds of the model ----------------
\* number of entries of WIFI_LIST (chaves.h, a configuration file outside src/)
WIFI_TOTAL == 2

\* ---------------- input domains ----------------
Variants == {"light", "simple"}
\* analogRead(SOIL_PIN): a wet reading and the two values at the threshold
SoilValues == {800, 1200, 1201}
\* analogRead(LDR_PIN) in the light build: the two values at LDR_DARK_THRESHOLD
AnalogLight == {1500, 1501}
\* digitalRead(LDR_PIN) in the simple build
DigitalLight == {0, 1}
\* dht.readHumidity(), dht.readTemperature()
HumidityValues == {40, 60}
TemperatureValues == {20, 30}
\* tm_hour after a successful getLocalTime: of 0 .. 23 the first and the last
\* hour, the hours on both sides of NIGHT_END_HOUR and NIGHT_START_HOUR, and
\* an hour well inside the night window
Hours == {0, 11, 12, 17, 18, 20, 23}
\* tm_hour of the uninitialised `struct tm timeinfo` when getLocalTime fails:
\* any int; one value below the range, a night hour, a day hour, one above
GarbageHours == {-1, 3, 14, 24}

VARIABLES
  variant,        \* which build of the sketch runs
  pc,             \* position of the thread
  ret,            \* caller of the running connectWiFi: "setup", "loop", or "none"
  wifiConnected,  \* global flag (line 72 / 373)
  timeValid,      \* global flag (line 73 / 374)
  wl_status,      \* TRUE iff WiFi.status() == WL_CONNECTED right now
  wifiBegun,      \* WiFi.begin has been called at least once
  timeConfigured, \* configTime has been called
  net,            \* connectWiFi: loop index i (light build)
  attempts,       \* connectWiFi: attempts
  polls,          \* WiFi.status() reads for the current candidate
  pollsTotal,     \* WiFi.status() reads of the running connectWiFi call
  sawUp,          \* one of those reads returned WL_CONNECTED
  lastGood,       \* <<>> or <<tm_hour of the last successful read of loop>>
  rele,           \* level of RELE_PIN: "UNSET", "HIGH" (off) or "LOW" (pump on)
  led,            \* level of LED_PIN
  lightValue,     \* loop locals: the sensor snapshot
  soilValue,
  humidity,
  temperature,
  haAgua,
  hour,
  timeOk,         \* result of the most recent getLocalTime call
  branch,         \* which arm of handleWateringLogic was taken (0 = none yet)
  bombaLigada,    \* handleWateringLogic local
  blinkTimes,     \* blinkLED parameters and loop index
  blinkDelay,
  blinkI,
  args,           \* the argument lists of the sendToThingSpeak calls of this cycle
  requests,       \* HTTP requests issued in this cycle
  events,         \* pin writes and holds of this cycle, in order
  pumpOnMs        \* time the relay was held energized in this cycle

vars == <<variant, pc, ret, wifiConnected, timeValid, wl_status, wifiBegun,
          timeConfigured, net, attempts, polls, pollsTotal, sawUp, lastGood,
          rele, led, lightValue, soilValue, humidity, temperature, haAgua,
          hour, timeOk, branch, bombaLigada,
          blinkTimes, blinkDelay, blinkI, args, requests, events, pumpOnMs>>

connVars == <<wifiConnected, wl_status, wifiBegun, timeConfigured, net,
              attempts, polls, pollsTotal, sawUp>>
histVars == <<lastGood>>
pinVars == <<rele, led, events, pumpOnMs>>
snapVars == <<lightValue, soilValue, humidity, temperature, haAgua>>
blinkVars == <<blinkTimes, blinkDelay, blinkI>>
sendVars == <<args, requests>>

\* ---------------- pure helpers ----------------
\* mutant: the two bounds of the window exchanged
isNightHour_Mut(h) == (h >= NIGHT_END_HOUR \/ h < NIGHT_START_HOUR)

isNightHour(h) == (h >= NIGHT_START_HOUR \/ h < NIGHT_END_HOUR)

\* mutant: >= instead of >
DrySoil_Mut(soil) == soil >= SOIL_MOISTURE_THRESHOLD

DrySoil(soil) == soil > SOIL_MOISTURE_THRESHOLD

IsDark(light) == light > LDR_DARK_THRESHOLD

BoolToInt(b) == IF b THEN 1 ELSE 0

\* the if / else-if chain of handleWateringLogic: 1 refill alarm, 2 pump,
\* 3 long warning, 4 "Planta em boas condicoes"
SelectBranchLight(soil, agua, h, light) ==
  IF DrySoil(soil) /\ isNightHour(h) /\ ~agua THEN 1
  ELSE IF DrySoil(soil) /\ isNightHour(h) /\ agua /\ IsDark(light) THEN 2
  ELSE IF DrySoil(soil) /\ ~IsDark(light) THEN 3
  ELSE 4

SelectBranchSimple(soil, agua, h) ==
  IF DrySoil(soil) /\ isNightHour(h) /\ ~agua THEN 1
  ELSE IF DrySoil(soil) /\ isNightHour(h) /\ agua THEN 2
  ELSE IF DrySoil(soil) THEN 3
  ELSE 4

LightDomain(v) == IF v = "light" THEN AnalogLight ELSE DigitalLight

\* ---------------- initial state: reset, before setup() ----------------
Init ==
  /\ variant \in Variants
  /\ pc = "setup"
  /\ ret = "none"
  /\ wifiConnected = FALSE
  /\ timeValid = FALSE
  /\ wl_status = FALSE
  /\ wifiBegun = FALSE
  /\ timeConfigured = FALSE
  /\ net = 0
  /\ attempts = 0
  /\ polls = 0
  /\ pollsTotal = 0
  /\ sawUp = FALSE
  /\ lastGood = <<>>
  /\ rele = "UNSET"
  /\ led = "UNSET"
  /\ lightValue = 0
  /\ soilValue = 0
  /\ humidity = 0
  /\ temperature = 0
  /\ haAgua = FALSE
  /\ hour = 0
  /\ timeOk = FALSE
  /\ branch = 0
  /\ bombaLigada = 0
  /\ blinkTimes = 0
  /\ blinkDelay = 0
  /\ blinkI = 0
  /\ args = <<>>
  /\ requests = <<>>
  /\ events = <<>>
  /\ pumpOnMs = 0

\* ---------------- the radio ----------------
\* The association comes and goes on its own once the station was started.
EnvWiFi ==
  /\ wifiBegun
  /\ wl_status' = ~wl_status
  /\ UNCHANGED <<variant, pc, ret, wifiConnected, timeValid, wifiBegun,
                 timeConfigured, net, attempts, polls, pollsTotal, sawUp,
                 lastGood, rele, led, lightValue, soilValue, humidity,
                 temperature, haAgua, hour, timeOk,
                 branch, bombaLigada, blinkTimes, blinkDelay, blinkI, args,
                 requests, events, pumpOnMs>>

\* mutant: setup leaves the relay pin at the level that energizes the pump
SetupPins_Mut ==
  /\ pc = "setup"
  /\ rele' = "LOW"
  /\ pc' = "setup_connect"
  /\ UNCHANGED <<variant, ret, timeValid, connVars, histVars, led, events,
                 pumpOnMs, snapVars, hour, timeOk, branch, bombaLigada,
                 blinkVars, sendVars>>

\* ---------------- setup() ----------------
\* pinMode(RELE_PIN, OUTPUT); digitalWrite(RELE_PIN, HIGH); the other pinModes
SetupPins ==
  /\ pc = "setup"
  /\ rele' = "HIGH"
  /\ pc' = "setup_connect"
  /\ UNCHANGED <<variant, ret, timeValid, connVars, histVars, led, events, pumpOnMs,
                 snapVars, hour, timeOk, branch, bombaLigada, blinkVars,
                 sendVars>>

\* connectWiFi();
SetupConnect ==
  /\ pc = "setup_connect"
  /\ ret' = "setup"
  /\ pc' = "cw_enter"
  /\ UNCHANGED <<variant, timeValid, connVars, histVars, pinVars, snapVars, hour,
                 timeOk, branch, bombaLigada, blinkVars, sendVars>>

\* mutant: the flag is set on success and never cleared on failure
updateLocalTime_Mut(ok) == timeValid' = (timeValid \/ ok) /\ timeOk' = ok

\* updateLocalTime(): timeValid becomes the outcome of getLocalTime
updateLocalTime(ok) == timeValid' = ok /\ timeOk' = ok

\* if (wifiConnected) updateLocalTime();
SetupTime ==
  /\ pc = "setup_time"
  /\ IF wifiConnected
       THEN \E ok \in BOOLEAN : updateLocalTime(ok)
       ELSE UNCHANGED <<timeValid, timeOk>>
  /\ pc' = "loop_check"
  /\ UNCHANGED <<variant, ret, connVars, histVars, pinVars, snapVars, hour,
                 branch, bombaLigada, blinkVars, sendVars>>

\* ---------------- connectWiFi() ----------------
\* On return the locals i and attempts go out of scope (reset to 0 here, as are
\* the read counters polls and pollsTotal).  Every evaluation of the while test
\* and the if after the loop reads WiFi.status() once.
CW_Return == IF ret = "setup" THEN "setup_time" ELSE "loop_time"

cwFrame == <<variant, timeValid, histVars, pinVars, snapVars, hour, timeOk, branch,
             bombaLigada, blinkVars, sendVars>>

\* light build, lines 110..115: wifiConnected = false; for (int i = 0; ...
CW_EnterLight ==
  /\ pc = "cw_enter" /\ variant = "light"
  /\ wifiConnected' = FALSE
  /\ net' = 0
  /\ pc' = "cw_for"
  /\ polls' = 0
  /\ pollsTotal' = 0
  /\ sawUp' = FALSE
  /\ UNCHANGED <<wl_status, wifiBegun, timeConfigured, attempts>>
  /\ UNCHANGED ret
  /\ UNCHANGED cwFrame

\* mutant: the candidate loop runs once past the end of the list
CW_ForLight_Mut ==
  /\ pc = "cw_for" /\ variant = "light"
  /\ IF net <= WIFI_TOTAL
       THEN /\ wifiBegun' = TRUE
            /\ attempts' = 0
            /\ polls' = 0
            /\ pc' = "cw_poll"
            /\ UNCHANGED <<wifiConnected, net, pollsTotal, sawUp>>
       ELSE /\ wifiConnected' = FALSE
            /\ pc' = CW_Return
            /\ attempts' = 0
            /\ net' = 0
            /\ polls' = 0
            /\ pollsTotal' = 0
            /\ sawUp' = FALSE
            /\ UNCHANGED wifiBegun
  /\ UNCHANGED <<wl_status, timeConfigured>>
  /\ ret' = (IF net <= WIFI_TOTAL THEN ret ELSE "none")
  /\ UNCHANGED cwFrame

\* light build, lines 115..124 and 148..150: the loop test; WiFi.begin of
\* candidate i, or the exit after the last candidate
CW_ForLight ==
  /\ pc = "cw_for" /\ variant = "light"
  /\ IF net < WIFI_TOTAL
       THEN /\ wifiBegun' = TRUE
            /\ attempts' = 0
            /\ polls' = 0
            /\ pc' = "cw_poll"
            /\ UNCHANGED <<wifiConnected, net, pollsTotal, sawUp>>
       ELSE /\ wifiConnected' = FALSE
            /\ pc' = CW_Return
            /\ attempts' = 0
            /\ net' = 0
            /\ polls' = 0
            /\ pollsTotal' = 0
            /\ sawUp' = FALSE
            /\ UNCHANGED wifiBegun
  /\ UNCHANGED <<wl_status, timeConfigured>>
  /\ ret' = (IF net < WIFI_TOTAL THEN ret ELSE "none")
  /\ UNCHANGED cwFrame

\* simple build, lines 410..413: WiFi.begin(WIFI_NAME, WIFI_SENHA); attempts = 0
CW_EnterSimple ==
  /\ pc = "cw_enter" /\ variant = "simple"
  /\ wifiBegun' = TRUE
  /\ attempts' = 0
  /\ polls' = 0
  /\ pollsTotal' = 0
  /\ sawUp' = FALSE
  /\ pc' = "cw_poll"
  /\ UNCHANGED <<wifiConnected, wl_status, timeConfigured, net>>
  /\ UNCHANGED ret
  /\ UNCHANGED cwFrame

\* mutant: <= instead of < in the bound of the wait loop
CW_Poll_Mut ==
  /\ pc = "cw_poll"
  /\ IF ~wl_status /\ attempts <= WIFI_MAX_ATTEMPTS
       THEN /\ attempts' = attempts + 1
            /\ pc' = "cw_poll"
       ELSE /\ pc' = "cw_check"
            /\ UNCHANGED attempts
  /\ polls' = polls + 1
  /\ pollsTotal' = pollsTotal + 1
  /\ sawUp' = (sawUp \/ wl_status)
  /\ UNCHANGED <<wifiConnected, wl_status, wifiBegun, timeConfigured, net>>
  /\ UNCHANGED ret
  /\ UNCHANGED cwFrame

\* while (WiFi.status() != WL_CONNECTED && attempts < WIFI_MAX_ATTEMPTS)
\*   { delay(500); attempts++; }          one evaluation of the loop test
CW_Poll ==
  /\ pc = "cw_poll"
  /\ IF ~wl_status /\ attempts < WIFI_MAX_ATTEMPTS
       THEN /\ attempts' = attempts + 1
            /\ pc' = "cw_poll"
       ELSE /\ pc' = "cw_check"
            /\ UNCHANGED attempts
  /\ polls' = polls + 1
  /\ pollsTotal' = pollsTotal + 1
  /\ sawUp' = (sawUp \/ wl_status)
  /\ UNCHANGED <<wifiConnected, wl_status, wifiBegun, timeConfigured, net>>
  /\ UNCHANGED ret
  /\ UNCHANGED cwFrame

\* light build, lines 132..146: if (WiFi.status() == WL_CONNECTED) { ... return; }
CW_CheckLight ==
  /\ pc = "cw_check" /\ variant = "light"
  /\ IF wl_status
       THEN /\ wifiConnected' = TRUE
            /\ timeConfigured' = TRUE
            /\ pc' = CW_Return
            /\ net' = 0
            /\ attempts' = 0
            /\ polls' = 0
            /\ pollsTotal' = 0
            /\ sawUp' = FALSE
       ELSE /\ net' = net + 1
            /\ pc' = "cw_for"
            /\ polls' = polls + 1
            /\ pollsTotal' = pollsTotal + 1
            /\ UNCHANGED sawUp
            /\ UNCHANGED <<wifiConnected, timeConfigured, attempts>>
  /\ UNCHANGED <<wl_status, wifiBegun>>
  /\ ret' = (IF wl_status THEN "none" ELSE ret)
  /\ UNCHANGED cwFrame

\* simple build, lines 420..429
CW_CheckSimple ==
  /\ pc = "cw_check" /\ variant = "simple"
  /\ IF wl_status
       THEN /\ wifiConnected' = TRUE
            /\ timeConfigured' = TRUE
       ELSE /\ wifiConnected' = FALSE
            /\ UNCHANGED timeConfigured
  /\ pc' = CW_Return
  /\ attempts' = 0
  /\ polls' = 0
  /\ pollsTotal' = 0
  /\ sawUp' = FALSE
  /\ UNCHANGED <<wl_status, wifiBegun, net>>
  /\ ret' = "none"
  /\ UNCHANGED cwFrame

\* mutant: the reconnect test with the status comparison inverted
LoopCheck_Mut ==
  /\ pc = "loop_check"
  /\ IF wl_status /\ wifiConnected
       THEN /\ wifiConnected' = FALSE
            /\ ret' = "loop"
            /\ pc' = "cw_enter"
       ELSE /\ pc' = "loop_time"
            /\ UNCHANGED <<wifiConnected, ret>>
  /\ UNCHANGED <<variant, timeValid, wl_status, wifiBegun, timeConfigured,
                 net, attempts, polls, pollsTotal, sawUp, histVars, pinVars,
                 snapVars, hour, timeOk, branch, bombaLigada, blinkVars,
                 sendVars>>

\* ---------------- loop() ----------------
\* if (WiFi.status() != WL_CONNECTED && wifiConnected)
\*   { wifiConnected = false; connectWiFi(); }
LoopCheck ==
  /\ pc = "loop_check"
  /\ IF ~wl_status /\ wifiConnected
       THEN /\ wifiConnected' = FALSE
            /\ ret' = "loop"
            /\ pc' = "cw_enter"
       ELSE /\ pc' = "loop_time"
            /\ UNCHANGED <<wifiConnected, ret>>
  /\ UNCHANGED <<variant, timeValid, wl_status, wifiBegun, timeConfigured,
                 net, attempts, polls, pollsTotal, sawUp, histVars, pinVars,
                 snapVars, hour, timeOk, branch,
                 bombaLigada, blinkVars, sendVars>>

\* if (wifiConnected && !timeValid) updateLocalTime();
LoopTime ==
  /\ pc = "loop_time"
  /\ IF wifiConnected /\ ~timeValid
       THEN \E ok \in BOOLEAN : updateLocalTime(ok)
       ELSE UNCHANGED <<timeValid, timeOk>>
  /\ pc' = "loop_read"
  /\ UNCHANGED <<variant, ret, connVars, histVars, pinVars, snapVars, hour,
                 branch, bombaLigada, blinkVars, sendVars>>

\* the sensor reads and printSensorData
LoopRead ==
  /\ pc = "loop_read"
  /\ lightValue' \in LightDomain(variant)
  /\ soilValue' \in SoilValues
  /\ humidity' \in HumidityValues
  /\ temperature' \in TemperatureValues
  /\ haAgua' \in BOOLEAN
  /\ pc' = "loop_hour"
  /\ UNCHANGED <<variant, ret, timeValid, connVars, histVars, pinVars, hour, timeOk,
                 branch, bombaLigada, blinkVars, sendVars>>

\* mutant: the hour read of loop also stores its outcome in timeValid
LoopHour_Mut ==
  /\ pc = "loop_hour"
  /\ \E ok \in BOOLEAN :
       /\ timeOk' = ok
       /\ timeValid' = ok
       /\ hour' \in (IF ok THEN Hours ELSE GarbageHours)
  /\ pc' = "hwl_select"
  /\ UNCHANGED <<variant, ret, connVars, histVars, pinVars, snapVars,
                 branch, bombaLigada, blinkVars, sendVars>>

\* struct tm timeinfo; getLocalTime(&timeinfo); int hour = timeinfo.tm_hour;
\* The result of getLocalTime is ignored; when it fails timeinfo was never
\* written and hour is whatever the stack held.
LoopHour ==
  /\ pc = "loop_hour"
  /\ \E ok \in BOOLEAN :
       /\ timeOk' = ok
       /\ hour' \in (IF ok THEN Hours ELSE GarbageHours)
  /\ pc' = "hwl_select"
  /\ UNCHANGED <<variant, ret, timeValid, connVars, histVars, pinVars, snapVars,
                 branch, bombaLigada, blinkVars, sendVars>>

\* The same step, also recording the hour of a successful read in lastGood
\* (history of the reads of loop, kept only by SpecClock).
LoopHourRecorded ==
  /\ pc = "loop_hour"
  /\ \E ok \in BOOLEAN :
       /\ timeOk' = ok
       /\ hour' \in (IF ok THEN Hours ELSE GarbageHours)
       /\ lastGood' = (IF ok THEN <<hour'>> ELSE lastGood)
  /\ pc' = "hwl_select"
  /\ UNCHANGED <<variant, ret, timeValid, connVars, pinVars, snapVars,
                 branch, bombaLigada, blinkVars, sendVars>>

\* ---------------- pin writes ----------------
\* digitalWrite(RELE_PIN, level), recorded in the cycle's event list
WriteRele(level) ==
  /\ rele' = level
  /\ events' = Append(events, IF level = "LOW" THEN "RELE_LOW" ELSE "RELE_HIGH")

\* digitalWrite(LED_PIN, level)
WriteLed(level) ==
  /\ led' = level
  /\ events' = Append(events, IF level = "HIGH" THEN "LED_HIGH" ELSE "LED_LOW")

\* ---------------- handleWateringLogic() ----------------
hwlFrame == <<variant, ret, timeValid, connVars, histVars, snapVars, hour,
              timeOk>>

\* mutant: the arm also depends on the connectivity flag
SelectBranch_Mut ==
  IF ~wifiConnected THEN 4
  ELSE IF variant = "light"
    THEN SelectBranchLight(soilValue, haAgua, hour, lightValue)
    ELSE SelectBranchSimple(soilValue, haAgua, hour)

SelectBranch ==
  IF variant = "light"
    THEN SelectBranchLight(soilValue, haAgua, hour, lightValue)
    ELSE SelectBranchSimple(soilValue, haAgua, hour)

\* blinkLED(20, LED_BLINK_SHORT) of the refill alarm arm
AlarmTimes == 20
\* mutant: the alarm blinks at the long interval
AlarmDelay_Mut == LED_BLINK_LONG
AlarmDelay == LED_BLINK_SHORT
\* blinkLED(5, LED_BLINK_LONG) of the warning arm
WarnTimes == 5
WarnDelay == LED_BLINK_LONG

\* int bombaLigada = 0; and the if / else-if chain: control enters one arm
HWL_Select ==
  /\ pc = "hwl_select"
  /\ bombaLigada' = 0
  /\ branch' = SelectBranch
  /\ CASE branch' = 1 -> /\ blinkTimes' = AlarmTimes
                         /\ blinkDelay' = AlarmDelay
                         /\ blinkI' = 0
                         /\ pc' = "blink_loop"
       [] branch' = 2 -> /\ pc' = "pump_led_on"
                         /\ UNCHANGED blinkVars
       [] branch' = 3 -> /\ blinkTimes' = WarnTimes
                         /\ blinkDelay' = WarnDelay
                         /\ blinkI' = 0
                         /\ pc' = "blink_loop"
       [] OTHER       -> /\ pc' = "ok_rele"
                         /\ UNCHANGED blinkVars
  /\ UNCHANGED <<pinVars, sendVars>>
  /\ UNCHANGED hwlFrame

\* blinkLED: for (i < times) { digitalWrite(LED_PIN, HIGH); delay(delayTime);
Blink_High ==
  /\ pc = "blink_loop"
  /\ blinkI < blinkTimes
  /\ WriteLed("HIGH")
  /\ pc' = "blink_low"
  /\ UNCHANGED <<rele, pumpOnMs, branch, bombaLigada, blinkVars, sendVars>>
  /\ UNCHANGED hwlFrame

\* digitalWrite(LED_PIN, LOW); delay(delayTime); i++ }
Blink_Low ==
  /\ pc = "blink_low"
  /\ WriteLed("LOW")
  /\ blinkI' = blinkI + 1
  /\ pc' = "blink_loop"
  /\ UNCHANGED <<rele, pumpOnMs, branch, bombaLigada, blinkTimes, blinkDelay,
                 sendVars>>
  /\ UNCHANGED hwlFrame

\* mutant: the warning arm does not write the relay
Warn_Rele_Mut ==
  /\ pc = "blink_loop"
  /\ ~(blinkI < blinkTimes)
  /\ branch = 3
  /\ pc' = "hwl_send"
  /\ UNCHANGED <<pinVars, branch, bombaLigada, blinkVars, sendVars>>
  /\ UNCHANGED hwlFrame

\* refill alarm arm after blinkLED returned: digitalWrite(RELE_PIN, HIGH);
Alarm_Rele ==
  /\ pc = "blink_loop"
  /\ ~(blinkI < blinkTimes)
  /\ branch = 1
  /\ WriteRele("HIGH")
  /\ pc' = "hwl_send"
  /\ UNCHANGED <<led, pumpOnMs, branch, bombaLigada, blinkVars, sendVars>>
  /\ UNCHANGED hwlFrame

\* warning arm after blinkLED returned: digitalWrite(RELE_PIN, HIGH);
Warn_Rele ==
  /\ pc = "blink_loop"
  /\ ~(blinkI < blinkTimes)
  /\ branch = 3
  /\ WriteRele("HIGH")
  /\ pc' = "hwl_send"
  /\ UNCHANGED <<led, pumpOnMs, branch, bombaLigada, blinkVars, sendVars>>
  /\ UNCHANGED hwlFrame

\* pump arm: digitalWrite(LED_PIN, HIGH);
Pump_LedOn ==
  /\ pc = "pump_led_on"
  /\ WriteLed("HIGH")
  /\ pc' = "pump_rele_on"
  /\ UNCHANGED <<rele, pumpOnMs, branch, bombaLigada, blinkVars, sendVars>>
  /\ UNCHANGED hwlFrame

\* digitalWrite(RELE_PIN, LOW);  // Liga bomba
Pump_ReleOn ==
  /\ pc = "pump_rele_on"
  /\ WriteRele("LOW")
  /\ pc' = "pump_hold"
  /\ UNCHANGED <<led, pumpOnMs, branch, bombaLigada, blinkVars, sendVars>>
  /\ UNCHANGED hwlFrame

\* mutant: the hold without bombaLigada = 1
Pump_Hold_Mut ==
  /\ pc = "pump_hold"
  /\ events' = Append(events, "HOLD")
  /\ pumpOnMs' = pumpOnMs + (IF rele = "LOW" THEN PUMP_ON_TIME_MS ELSE 0)
  /\ pc' = "pump_rele_off"
  /\ UNCHANGED <<rele, led, branch, bombaLigada, blinkVars, sendVars>>
  /\ UNCHANGED hwlFrame

\* bombaLigada = 1; delay(PUMP_ON_TIME_MS);
Pump_Hold ==
  /\ pc = "pump_hold"
  /\ bombaLigada' = 1
  /\ events' = Append(events, "HOLD")
  /\ pumpOnMs' = pumpOnMs + (IF rele = "LOW" THEN PUMP_ON_TIME_MS ELSE 0)
  /\ pc' = "pump_rele_off"
  /\ UNCHANGED <<rele, led, branch, blinkVars, sendVars>>
  /\ UNCHANGED hwlFrame

\* mutant: the pump is not switched off after the hold
Pump_ReleOff_Mut ==
  /\ pc = "pump_rele_off"
  /\ pc' = "pump_led_off"
  /\ UNCHANGED <<pinVars, branch, bombaLigada, blinkVars, sendVars>>
  /\ UNCHANGED hwlFrame

\* digitalWrite(RELE_PIN, HIGH); // Desliga bomba
Pump_ReleOff ==
  /\ pc = "pump_rele_off"
  /\ WriteRele("HIGH")
  /\ pc' = "pump_led_off"
  /\ UNCHANGED <<led, pumpOnMs, branch, bombaLigada, blinkVars, sendVars>>
  /\ UNCHANGED hwlFrame

\* digitalWrite(LED_PIN, LOW);
Pump_LedOff ==
  /\ pc = "pump_led_off"
  /\ WriteLed("LOW")
  /\ pc' = "hwl_send"
  /\ UNCHANGED <<rele, pumpOnMs, branch, bombaLigada, blinkVars, sendVars>>
  /\ UNCHANGED hwlFrame

\* else arm: digitalWrite(RELE_PIN, HIGH);
Ok_Rele ==
  /\ pc = "ok_rele"
  /\ WriteRele("HIGH")
  /\ pc' = "ok_led"
  /\ UNCHANGED <<led, pumpOnMs, branch, bombaLigada, blinkVars, sendVars>>
  /\ UNCHANGED hwlFrame

\* digitalWrite(LED_PIN, LOW);
Ok_Led ==
  /\ pc = "ok_led"
  /\ WriteLed("LOW")
  /\ pc' = "hwl_send"
  /\ UNCHANGED <<rele, pumpOnMs, branch, bombaLigada, blinkVars, sendVars>>
  /\ UNCHANGED hwlFrame

\* mutant: humidity and temperature exchanged
SendArgs_Mut(luz, umid, temp) ==
  <<luz, soilValue, temp, umid, bombaLigada, BoolToInt(haAgua)>>

\* The arguments of the sendToThingSpeak call, in parameter order
\* (luz, solo, umidAr, temp, bomba, agua).  Humidity and temperature are read
\* from the DHT again; the simple build also reads the LDR pin again.
SendArgs(luz, umid, temp) ==
  <<luz, soilValue, umid, temp, bombaLigada, BoolToInt(haAgua)>>

\* mutant: the arm that only switches everything off returns without the call
HWL_Send_Mut ==
  /\ pc = "hwl_send"
  /\ IF branch = 4
       THEN /\ pc' = "loop_update"
            /\ UNCHANGED args
       ELSE /\ \E luz \in (IF variant = "light" THEN {lightValue}
                                                  ELSE DigitalLight),
                  umid \in HumidityValues, temp \in TemperatureValues :
                 args' = Append(args, SendArgs(luz, umid, temp))
            /\ pc' = "sts"
  /\ UNCHANGED <<requests, pinVars, branch, bombaLigada, blinkVars>>
  /\ UNCHANGED hwlFrame

\* sendToThingSpeak(...): evaluation of the arguments and the call
HWL_Send ==
  /\ pc = "hwl_send"
  /\ \E luz \in (IF variant = "light" THEN {lightValue} ELSE DigitalLight),
        umid \in HumidityValues, temp \in TemperatureValues :
       args' = Append(args, SendArgs(luz, umid, temp))
  /\ pc' = "sts"
  /\ UNCHANGED <<requests, pinVars, branch, bombaLigada, blinkVars>>
  /\ UNCHANGED hwlFrame

\* ---------------- sendToThingSpeak() ----------------
\* the query string: "&field1=" + luz + "&field2=" + solo + ...
Url(a) == [field1 |-> a[1], field2 |-> a[2], field3 |-> a[3],
           field4 |-> a[4], field5 |-> a[5], field6 |-> a[6]]

\* mutant: the guard tests the flag instead of the live status
Online_Mut == wifiConnected

\* the guard of the upload: if (WiFi.status() != WL_CONNECTED) return;
Online == wl_status

\* mutant: without the link the upload waits for it instead of returning
SendToThingSpeak_Wait ==
  /\ pc = "sts"
  /\ IF ~Online
       THEN UNCHANGED <<requests, pc>>
       ELSE /\ requests' = Append(requests, Url(args[Len(args)]))
            /\ pc' = "loop_update"
  /\ UNCHANGED <<args, pinVars, branch, bombaLigada, blinkVars>>
  /\ UNCHANGED hwlFrame

\* if (WiFi.status() != WL_CONNECTED) return;  else build the url, http.GET()
SendToThingSpeak ==
  /\ pc = "sts"
  /\ IF ~Online
       THEN UNCHANGED requests
       ELSE requests' = Append(requests, Url(args[Len(args)]))
  /\ pc' = "loop_update"
  /\ UNCHANGED <<args, pinVars, branch, bombaLigada, blinkVars>>
  /\ UNCHANGED hwlFrame

\* ---------------- end of loop() ----------------
\* updateLocalTime();
LoopUpdate ==
  /\ pc = "loop_update"
  /\ \E ok \in BOOLEAN : updateLocalTime(ok)
  /\ pc' = "loop_delay"
  /\ UNCHANGED <<variant, ret, connVars, histVars, pinVars, snapVars, hour,
                 branch, bombaLigada, blinkVars, sendVars>>

\* delay(LOOP_DELAY_MS); loop() returns: its locals and those of the functions
\* it called are gone, the pins keep their levels
LoopDelay ==
  /\ pc = "loop_delay"
  /\ pc' = "loop_check"
  /\ lightValue' = 0 /\ soilValue' = 0 /\ humidity' = 0 /\ temperature' = 0
  /\ haAgua' = FALSE /\ hour' = 0
  /\ branch' = 0 /\ bombaLigada' = 0
  /\ blinkTimes' = 0 /\ blinkDelay' = 0 /\ blinkI' = 0
  /\ args' = <<>> /\ requests' = <<>> /\ events' = <<>> /\ pumpOnMs' = 0
  /\ UNCHANGED <<variant, ret, timeValid, timeOk, connVars, histVars, rele, led>>

\* the steps of the sketch, but for the hour read of loop
StepNoHour ==
  \/ SetupPins \/ SetupConnect \/ SetupTime
  \/ CW_EnterLight \/ CW_ForLight \/ CW_EnterSimple \/ CW_Poll
  \/ CW_CheckLight \/ CW_CheckSimple
  \/ LoopCheck \/ LoopTime \/ LoopRead
  \/ HWL_Select
  \/ Blink_High \/ Blink_Low \/ Alarm_Rele \/ Warn_Rele
  \/ Pump_LedOn \/ Pump_ReleOn \/ Pump_Hold \/ Pump_ReleOff \/ Pump_LedOff
  \/ Ok_Rele \/ Ok_Led
  \/ HWL_Send \/ SendToThingSpeak
  \/ LoopUpdate \/ LoopDelay

Step == StepNoHour \/ LoopHour

Next == EnvWiFi \/ Step

Spec == Init /\ [][Next]_vars

\* The sketch never stops by itself: setup() and loop() are run by the Arduino
\* core, every call they make returns (delay, the HTTP client and getLocalTime
\* have timeouts).  The radio is under no obligation.
FairSpec == Init /\ [][Next]_vars /\ WF_vars(Step)

\* The same sketch with the history of the hour reads recorded.
NextClock == EnvWiFi \/ StepNoHour \/ LoopHourRecorded

SpecClock == Init /\ [][NextClock]_vars

\* ======================= properties =======================
\* positions inside an arm of handleWateringLogic
ArmPcs == {"blink_loop", "blink_low", "pump_led_on", "pump_rele_on",
           "pump_hold", "pump_rele_off", "pump_led_off", "ok_rele", "ok_led"}
\* positions after the arm has finished, up to the end of the cycle
ArmDonePcs == {"hwl_send", "sts", "loop_update", "loop_delay"}
\* positions after the arguments of sendToThingSpeak were evaluated
SentPcs == {"sts", "loop_update", "loop_delay"}
\* positions where the snapshot and the hour of the cycle are known
DecidedPcs == {"hwl_select"} \cup ArmPcs \cup ArmDonePcs

HasEvent(e) == \E k \in 1 .. Len(events) : events[k] = e
CountEvent(e) == Cardinality({k \in 1 .. Len(events) : events[k] = e})
IsPrefix(a, b) == Len(a) <= Len(b) /\ \A k \in 1 .. Len(a) : a[k] = b[k]

\* the conditions of the claims, written with the numbers of the claims
ClaimDry == soilValue > 1200
ClaimNight == hour >= 18 \/ hour < 12
ClaimDark == variant = "light" => lightValue > 1500
PumpSequence == <<"LED_HIGH", "RELE_LOW", "HOLD", "RELE_HIGH", "LED_LOW">>

\* C1: with a soil reading <= 1200 the relay is never driven to its energized
\* level (LOW) at any point of the cycle, in both builds, whatever the hour,
\* the water level and the light.
C1_WetSoilNeverPumps ==
  (pc \in DecidedPcs /\ soilValue <= 1200)
    => (rele = "HIGH" /\ ~HasEvent("RELE_LOW") /\ pumpOnMs = 0)

C1_Witness ==
  /\ pc = "loop_delay" /\ soilValue = 1200 /\ hour = 20 /\ haAgua
  /\ HasEvent("RELE_HIGH") /\ rele = "HIGH"

\* C2: dry soil (> 1200), night window, no water: the relay stays HIGH through
\* the whole cycle and the indicator runs the short alarm, 20 blinks at the
\* short interval, whatever the light reading.
C2_RefillAlarm ==
  (pc \in (ArmPcs \cup ArmDonePcs) /\ ClaimDry /\ ClaimNight /\ ~haAgua)
    => /\ rele = "HIGH" /\ ~HasEvent("RELE_LOW")
       /\ blinkTimes = 20 /\ blinkDelay = LED_BLINK_SHORT
       /\ pc \in ArmDonePcs =>
            (CountEvent("LED_HIGH") = 20 /\ CountEvent("LED_LOW") = 20)

C2_Witness ==
  /\ pc = "hwl_send" /\ soilValue = 1201 /\ hour = 20 /\ ~haAgua
  /\ CountEvent("LED_HIGH") = 20 /\ rele = "HIGH"

\* C3: dry soil, night window, water present and (light build) light > 1500:
\* the cycle performs indicator on, pump on, hold, pump off, indicator off in
\* this order and nothing else; the pump is energized once, for the fixed hold,
\* and is off before telemetry.
C3_PumpSequence ==
  (pc \in (ArmPcs \cup ArmDonePcs) /\ ClaimDry /\ ClaimNight /\ haAgua /\ ClaimDark)
    => /\ IsPrefix(events, PumpSequence)
       /\ pc \in ArmDonePcs =>
            (events = PumpSequence /\ rele = "HIGH" /\ led = "LOW"
             /\ pumpOnMs = PUMP_ON_TIME_MS)

C3_Witness ==
  /\ pc = "hwl_send" /\ events = PumpSequence /\ rele = "HIGH"
  /\ soilValue = 1201 /\ haAgua /\ hour = 20

\* C4: the pump-activated argument of the telemetry call (field5) is 1 exactly
\* when the relay was energized in this cycle, and 0 in the three other arms;
\* a request that is issued carries the same value.
C4_Field5IffPumped ==
  pc \in SentPcs
    => /\ Len(args) = 1
       /\ args[1][5] \in {0, 1}
       /\ (args[1][5] = 1) <=> HasEvent("RELE_LOW")
       /\ branch \in {1, 3, 4} => args[1][5] = 0
       /\ \A k \in 1 .. Len(requests) : requests[k].field5 = args[1][5]

C4_Witness ==
  /\ pc = "loop_update" /\ HasEvent("RELE_LOW") /\ args[1][5] = 1
  /\ Len(requests) = 1 /\ requests[1].field5 = 1

\* C5: the relay is energized only in a cycle whose soil is dry (> 1200), whose
\* hour is in the night window (>= 18 or < 12) and whose reservoir has water
\* (and, light build, light > 1500); never for an hour in 12..17, never with
\* an empty reservoir.
C5_PumpOnlyWhenAllowed ==
  (rele = "LOW" \/ HasEvent("RELE_LOW"))
    => /\ pc \in (ArmPcs \cup ArmDonePcs)
       /\ ClaimDry /\ ClaimNight /\ haAgua /\ ClaimDark
       /\ hour \notin 12 .. 17

C5_Witness ==
  /\ rele = "LOW" /\ pc = "pump_hold" /\ soilValue = 1201 /\ haAgua
  /\ hour = 11

\* C6 (as claimed): a dry-soil cycle that is neither the pump arm nor the
\* refill alarm arm keeps the pump off and raises the long warning, 5 blinks
\* at the long interval; it never ends in the "good condition" arm.
C6_DryAlwaysWarns ==
  (pc \in ArmDonePcs /\ ClaimDry
     /\ ~(ClaimNight /\ haAgua /\ ClaimDark) /\ ~(ClaimNight /\ ~haAgua))
    => /\ branch = 3
       /\ ~HasEvent("RELE_LOW")
       /\ blinkTimes = 5 /\ blinkDelay = LED_BLINK_LONG
       /\ CountEvent("LED_HIGH") = 5

\* C7 (as claimed): a request is issued exactly when wifiConnected is true at
\* the time sendToThingSpeak is called.
C7_UploadIffFlag ==
  pc = "loop_update" => (Len(requests) = 1 <=> wifiConnected)

\* C7 (amended): a request is constructed and issued exactly when the live
\* association status is connected when sendToThingSpeak tests it; the
\* request is built from the arguments of the call.
C7_UploadIffLiveStatus ==
  [][(pc = "sts" /\ pc' # "sts")
       => /\ wl_status => requests' = Append(requests, Url(args[1]))
          /\ ~wl_status => requests' = requests]_vars

C7_Witness ==
  /\ pc = "loop_update" /\ Len(requests) = 1 /\ ~wifiConnected

\* C8 (as claimed): a cycle that starts with wifiConnected false (connectWiFi
\* exhausted every candidate) runs the association algorithm again.
C8_RetryNextCycle ==
  [][(pc = "loop_check" /\ ~wifiConnected /\ pc' # pc) => pc' = "cw_enter"]_vars

\* C9 (as claimed): every uploaded request carries the snapshot read at the
\* start of the cycle in field1..field4, and the pump and water flags in
\* field5 and field6.
C9_UploadIsSnapshot ==
  \A k \in 1 .. Len(requests) :
    requests[k] = [field1 |-> lightValue, field2 |-> soilValue,
                   field3 |-> humidity, field4 |-> temperature,
                   field5 |-> bombaLigada, field6 |-> BoolToInt(haAgua)]

\* C9 (amended): field2 is the soil value of the snapshot, field5 and field6
\* the pump and water flags of the cycle (0/1), field1 the light value of the
\* snapshot in the light build; field3 and field4 (and field1 in the simple
\* build) are a humidity, a temperature (and a light level) read again when
\* the call is made, in this positional order.
C9_UploadFields ==
  \A k \in 1 .. Len(requests) :
    /\ requests[k].field2 = soilValue
    /\ requests[k].field5 = bombaLigada
    /\ requests[k].field6 = (IF haAgua THEN 1 ELSE 0)
    /\ variant = "light" => requests[k].field1 = lightValue
    /\ requests[k].field1 \in LightDomain(variant)
    /\ requests[k].field3 \in HumidityValues
    /\ requests[k].field4 \in TemperatureValues

C9_Witness ==
  /\ Len(requests) = 1 /\ requests[1].field3 # humidity
  /\ requests[1].field4 # temperature /\ branch = 2
  /\ requests[1].field5 = 1 /\ requests[1].field6 = 1

\* C10: in every cycle, whatever arm was taken, both RELE_PIN and LED_PIN were
\* written at least once by the time the arm has finished.
C10_BothPinsWritten ==
  pc \in ArmDonePcs
    => /\ HasEvent("RELE_HIGH") \/ HasEvent("RELE_LOW")
       /\ HasEvent("LED_HIGH") \/ HasEvent("LED_LOW")
       /\ rele \in {"HIGH", "LOW"} /\ led \in {"HIGH", "LOW"}

C10_Witness ==
  /\ pc = "loop_delay" /\ branch = 3 /\ HasEvent("RELE_HIGH")
  /\ HasEvent("LED_LOW")

\* C11: the arm taken, the pump decision and the indicator pattern of a cycle
\* are given by one function of (build, soil, water, hour, light) alone: the
\* same inputs give the same decision in every reachable state, whatever
\* wifiConnected, timeValid and the earlier cycles were.
ClaimArm ==
  IF ClaimDry /\ ClaimNight /\ ~haAgua THEN 1
  ELSE IF ClaimDry /\ ClaimNight /\ haAgua /\ ClaimDark THEN 2
  ELSE IF ClaimDry /\ (variant = "light" => lightValue <= 1500) THEN 3
  ELSE 4

BlinkEvents(n) ==
  [k \in 1 .. 2 * n |-> IF k % 2 = 1 THEN "LED_HIGH" ELSE "LED_LOW"]

ClaimEvents ==
  CASE ClaimArm = 1 -> BlinkEvents(20) \o <<"RELE_HIGH">>
    [] ClaimArm = 2 -> PumpSequence
    [] ClaimArm = 3 -> BlinkEvents(5) \o <<"RELE_HIGH">>
    [] OTHER        -> <<"RELE_HIGH", "LED_LOW">>

C11_DecisionIsFunctionOfInputs ==
  pc \in ArmDonePcs
    => /\ branch = ClaimArm
       /\ events = ClaimEvents
       /\ bombaLigada = (IF ClaimArm = 2 THEN 1 ELSE 0)
       /\ rele = "HIGH" /\ led = "LOW"

C11_Witness ==
  /\ pc = "hwl_send" /\ branch = 2 /\ events = PumpSequence
  /\ ~wifiConnected /\ ~timeValid /\ ~timeOk

\* C12: no error halts the controller: from every reachable state the cycle
\* in progress reaches its end and a further cycle is started; every cycle
\* that ends has read the sensors, taken a decision and written both pins,
\* connected or not.
CycleDone ==
  /\ soilValue \in SoilValues /\ humidity \in HumidityValues
  /\ branch \in 1 .. 4
  /\ HasEvent("RELE_HIGH")
  /\ HasEvent("LED_LOW")
  /\ Len(args) = 1

C12_NoHalt ==
  /\ [](pc = "loop_delay" => CycleDone)
  /\ []<>(pc = "loop_delay")
  /\ []<>(pc = "loop_check")

C12_Witness ==
  /\ pc = "loop_delay" /\ CycleDone /\ ~wifiConnected /\ ~wl_status
  /\ ~timeValid /\ ~timeOk /\ requests = <<>>

\* C13: a cycle that finds the flag true and the live status not connected
\* clears the flag and runs connectWiFi from the first candidate with attempts
\* = 0, before any sensor of that cycle is read.
CwPcs == {"cw_enter", "cw_for", "cw_poll", "cw_check"}

C13_ReconnectFromStart ==
  /\ [][(pc = "loop_check" /\ pc' # pc /\ wifiConnected /\ ~wl_status)
          => (pc' = "cw_enter" /\ ~wifiConnected' /\ ret' = "loop")]_vars
  /\ [][(pc = "cw_enter" /\ pc' # pc)
          => IF variant = "light"
               THEN pc' = "cw_for" /\ net' = 0
               ELSE pc' = "cw_poll" /\ attempts' = 0 /\ polls' = 0]_vars
  /\ [][(pc = "cw_for" /\ pc' = "cw_poll")
          => (attempts' = 0 /\ polls' = 0)]_vars
  /\ [](pc \in CwPcs /\ ret = "loop"
          => (soilValue = 0 /\ branch = 0 /\ events = <<>> /\ args = <<>>))

C13_Witness ==
  /\ pc = "cw_poll" /\ ret = "loop" /\ net = 0 /\ attempts = 0
  /\ ~wifiConnected /\ ~wl_status /\ timeConfigured

\* a step that leaves connectWiFi
CwReturns == pc \in CwPcs /\ pc' \notin CwPcs

\* C14 (as claimed): the status of a candidate is polled at most
\* WIFI_MAX_ATTEMPTS times, and wifiConnected is false on return exactly when
\* no candidate reached the connected status.
C14_AsClaimed ==
  /\ [](polls <= WIFI_MAX_ATTEMPTS)
  /\ [][CwReturns => (~wifiConnected' <=> ~(sawUp \/ wl_status))]_vars

\* C14 (amended): candidates are tried in list order; for each, the wait loop
\* reads the status at most WIFI_MAX_ATTEMPTS + 1 times, with at most
\* WIFI_MAX_ATTEMPTS delays, and the test after the loop reads it once more;
\* at the first candidate connected at that test wifiConnected becomes true,
\* time synchronization is configured and connectWiFi returns without another
\* WiFi.begin; wifiConnected is false on return exactly when no candidate was
\* connected at the test after its wait loop.
C14_ConnectWiFi ==
  /\ [](attempts <= WIFI_MAX_ATTEMPTS /\ polls <= WIFI_MAX_ATTEMPTS + 2)
  /\ [](pc = "cw_poll" => polls = attempts)
  /\ [](pc = "cw_check" => polls <= WIFI_MAX_ATTEMPTS + 1)
  /\ [][(pc = "cw_for" /\ pc' = "cw_poll")
          => (net' = net /\ net < WIFI_TOTAL)]_vars
  /\ [][(pc = "cw_check" /\ pc' = "cw_for")
          => (~wl_status /\ net' = net + 1)]_vars
  /\ [][(pc = "cw_check" /\ pc' # pc /\ wl_status)
          => (wifiConnected' /\ timeConfigured' /\ pc' \notin CwPcs)]_vars
  /\ [][CwReturns => (wifiConnected' <=> (pc = "cw_check" /\ wl_status))]_vars

C14_Witness ==
  /\ pc = "cw_check" /\ net = 1 /\ attempts = WIFI_MAX_ATTEMPTS
  /\ polls = WIFI_MAX_ATTEMPTS + 1 /\ wl_status /\ ~sawUp

\* positions between the hour read of loop and the updateLocalTime call that
\* ends the cycle
HourReadPcs == DecidedPcs \ {"loop_delay"}

\* C15 (as claimed): after every time read of a cycle, the read that supplies
\* the decision hour included, timeValid equals the outcome of that read.
C15_AsClaimed == timeValid = timeOk

\* C15 (amended): after every updateLocalTime call (setup, the conditional
\* call and the call that ends the cycle) timeValid equals the outcome of that
\* call's read, up to the next read; the read that supplies the decision hour
\* is a bare getLocalTime and leaves timeValid as it was.
C15_FlagFollowsUpdateLocalTime ==
  /\ [](pc \notin HourReadPcs => timeValid = timeOk)
  /\ [][(pc = "loop_hour") => timeValid' = timeValid]_vars

C15_Witness ==
  /\ pc = "loop_delay" /\ ~timeValid /\ ~timeOk /\ wifiConnected /\ wl_status

\* C16 (as claimed): when the time read of a cycle fails, the hour given to
\* the decision is the hour of the most recent successful read of an earlier
\* cycle.
C16_StaleHour ==
  (pc = "hwl_select" /\ ~timeOk /\ lastGood # <<>>) => hour = lastGood[1]

\* positions of the body of loop, of handleWateringLogic, of blinkLED and of
\* sendToThingSpeak; the calls of connectWiFi and updateLocalTime are not
\* among them
BodyPcs == {"loop_check", "loop_read", "loop_hour", "loop_delay",
            "hwl_select", "hwl_send", "sts"} \cup ArmPcs

\* C17 (as claimed): no step of the body of loop, of handleWateringLogic, of
\* blinkLED or of sendToThingSpeak changes wifiConnected or timeValid.
C17_OnlyManagerWrites ==
  [][(pc \in BodyPcs)
       => (wifiConnected' = wifiConnected /\ timeValid' = timeValid)]_vars

\* C17 (amended): those steps never change timeValid, and the only one that
\* changes wifiConnected is the reconnect test of loop, which clears the flag
\* itself right before it calls connectWiFi; where the conditional resync is
\* skipped both flags stay as they were.
C17_FlagWriters ==
  /\ [][(pc \in BodyPcs) => timeValid' = timeValid]_vars
  /\ [][(pc \in BodyPcs /\ wifiConnected' # wifiConnected)
          => (/\ pc = "loop_check" /\ ~wl_status
              /\ wifiConnected /\ ~wifiConnected'
              /\ pc' = "cw_enter")]_vars
  /\ [][(pc = "loop_time" /\ ~(wifiConnected /\ ~timeValid))
          => (wifiConnected' = wifiConnected /\ timeValid' = timeValid)]_vars

C17_Witness ==
  /\ pc = "cw_enter" /\ ret = "loop" /\ ~wifiConnected /\ timeValid

\* positions of a cycle before the call of sendToThingSpeak
BeforeSendPcs == {"loop_check", "loop_time", "loop_read", "loop_hour",
                  "hwl_select", "hwl_send"} \cup ArmPcs \cup CwPcs

\* C18: every cycle calls sendToThingSpeak exactly once, in each of the four
\* arms and only after the arm has finished its pin writes; a cycle issues at
\* most one request, built from the arguments of that one call, and a cycle
\* starts with no call and no request left over from an earlier one.
C18_OneUploadPerCycle ==
  /\ [](pc \in SentPcs => (Len(args) = 1 /\ branch \in 1 .. 4))
  /\ [](pc \in BeforeSendPcs => (args = <<>> /\ requests = <<>>))
  /\ [](Len(requests) <= 1)
  /\ [](\A k \in 1 .. Len(requests) : requests[k] = Url(args[1]))
  /\ [][args' # args => (args' = <<>> \/ (pc = "hwl_send" /\ pc' = "sts"))]_vars
  /\ [][requests' # requests
          => (requests' = <<>> \/ (pc = "sts" /\ wl_status))]_vars
  /\ [][(pc = "sts" /\ pc' # pc) => pc' = "loop_update"]_vars

C18_Witness ==
  /\ pc = "loop_delay" /\ branch = 4 /\ Len(args) = 1 /\ requests = <<>>
  /\ wifiConnected

\* C19 (as claimed): in setup, in connectWiFi, in a blink pattern, in the
\* upload and in the delay between cycles the relay pin is HIGH.
C19_ReleOffOutsideHold ==
  pc \in ({"setup", "setup_connect", "setup_time", "blink_loop", "blink_low",
            "sts", "loop_delay"} \cup CwPcs)
    => rele = "HIGH"

\* C19 (amended): once setup has written RELE_PIN HIGH, the relay pin is LOW
\* only between the two relay writes of the pump arm (the blocking hold), so
\* it is HIGH in connectWiFi, in a blink pattern, in the upload and in the
\* delay between cycles; a request with field5 = 1 is issued only after the
\* relay was switched back to HIGH.
C19_ReleOffAfterSetupWrite ==
  /\ [](pc \notin {"setup", "pump_hold", "pump_rele_off"} => rele = "HIGH")
  /\ [](pc \in {"pump_hold", "pump_rele_off"} => (rele = "LOW" /\ branch = 2))
  /\ [](\A k \in 1 .. Len(requests) :
          requests[k].field5 = 1
            => (rele = "HIGH" /\ IsPrefix(PumpSequence, events)))
  /\ [][requests' # requests => (rele = "HIGH" /\ rele' = "HIGH")]_vars

C19_Witness ==
  /\ pc = "loop_update" /\ Len(requests) = 1 /\ requests[1].field5 = 1
  /\ rele = "HIGH"

\* number of candidates connectWiFi goes through
Candidates == IF variant = "light" THEN WIFI_TOTAL ELSE 1

\* C20 (as claimed): one run of connectWiFi reads the status at most
\* WIFI_MAX_ATTEMPTS times per candidate.
C20_PollBudget == pollsTotal <= Candidates * WIFI_MAX_ATTEMPTS

\* C20 (amended): connectWiFi always returns; one run makes at most
\* WIFI_MAX_ATTEMPTS waits and at most WIFI_MAX_ATTEMPTS + 2 status reads per
\* candidate; when no candidate was ever seen connected it returns with
\* wifiConnected false; and the cycle whose reconnect test called it goes on
\* to its watering decision.
C20_ConnectTerminates ==
  /\ [](pollsTotal <= Candidates * (WIFI_MAX_ATTEMPTS + 2))
  /\ [](attempts <= WIFI_MAX_ATTEMPTS)
  /\ [][(CwReturns /\ ~sawUp /\ ~wl_status) => ~wifiConnected']_vars
  /\ (pc \in CwPcs) ~> (pc \notin CwPcs)
  /\ (pc = "cw_enter" /\ ret = "loop") ~> (pc = "hwl_select")

C20_Witness ==
  /\ pc = "cw_for" /\ net = WIFI_TOTAL /\ ~sawUp /\ ~wl_status
  /\ pollsTotal = WIFI_TOTAL * (WIFI_MAX_ATTEMPTS + 2) /\ ret = "loop"

====
